---- MODULE Spec2Model ----
(***************************************************************************)
(* The Turo car-rental ROI calculator of src/App.py: the engine            *)
(* calculate_roi, the projection series built from its result, and the     *)
(* Streamlit shell that guards, calls and renders them.                    *)
(*                                                                         *)
(* Python's float is an IEEE-754 binary64 number, and every figure of the  *)
(* program is one.  The model computes with binary64 values themselves:    *)
(* a float is a sign, a 53-bit significand and a binary exponent, and      *)
(* product and quotient are rounded to nearest, ties to even, as the       *)
(* hardware does.  Significands do not fit 32-bit integers,                  *)
(* so they are kept as natural numbers in limbs of LimbBits bits.            *)
(***************************************************************************)
EXTENDS Integers, Sequences

----------------------------------------------------------------------------
(* Natural numbers of any size: little-endian sequences of limbs in        *)
(* 0 .. Base-1 without leading zero limbs; << >> is zero.                  *)

LimbBits == 14
Base == 2^LimbBits

Max2(x, y) == IF x >= y THEN x ELSE y

Limb(a, i) == IF i <= Len(a) THEN a[i] ELSE 0

RECURSIVE BigNorm(_)
BigNorm(a) ==
    IF a = << >> THEN a
    ELSE IF a[Len(a)] # 0 THEN a
    ELSE BigNorm(SubSeq(a, 1, Len(a) - 1))

RECURSIVE BigFromNat(_)
BigFromNat(n) ==
    IF n = 0 THEN << >> ELSE <<n % Base>> \o BigFromNat(n \div Base)

RECURSIVE BigToNat(_)
BigToNat(a) ==
    IF a = << >> THEN 0 ELSE a[1] + Base * BigToNat(Tail(a))

RECURSIVE BigCmpFrom(_, _, _)
BigCmpFrom(a, b, i) ==
    IF i = 0 THEN 0
    ELSE IF a[i] < b[i] THEN -1
    ELSE IF a[i] > b[i] THEN 1
    ELSE BigCmpFrom(a, b, i - 1)

\* -1, 0 or 1 as a < b, a = b, a > b
BigCmp(a, b) ==
    IF Len(a) < Len(b) THEN -1
    ELSE IF Len(a) > Len(b) THEN 1
    ELSE BigCmpFrom(a, b, Len(a))

RECURSIVE BigAddFrom(_, _, _, _)
BigAddFrom(a, b, i, carry) ==
    IF i > Max2(Len(a), Len(b))
    THEN IF carry = 0 THEN << >> ELSE <<carry>>
    ELSE LET s == Limb(a, i) + Limb(b, i) + carry
         IN  <<s % Base>> \o BigAddFrom(a, b, i + 1, s \div Base)

BigAdd(a, b) == BigAddFrom(a, b, 1, 0)

RECURSIVE BigSubFrom(_, _, _, _)
BigSubFrom(a, b, i, borrow) ==
    IF i > Len(a) THEN << >>
    ELSE LET d == a[i] - Limb(b, i) - borrow
         IN  IF d < 0 THEN <<d + Base>> \o BigSubFrom(a, b, i + 1, 1)
                      ELSE <<d>> \o BigSubFrom(a, b, i + 1, 0)

\* a - b, for a >= b
BigSub(a, b) == BigNorm(BigSubFrom(a, b, 1, 0))

RECURSIVE BigMulSmallFrom(_, _, _, _)
BigMulSmallFrom(a, k, i, carry) ==
    IF i > Len(a)
    THEN IF carry = 0 THEN << >> ELSE <<carry>>
    ELSE LET p == a[i] * k + carry
         IN  <<p % Base>> \o BigMulSmallFrom(a, k, i + 1, p \div Base)

\* a * k, for 0 <= k < Base
BigMulSmall(a, k) == IF k = 0 THEN << >> ELSE BigMulSmallFrom(a, k, 1, 0)

ZeroLimbs(n) == [i \in 1..n |-> 0]

RECURSIVE BigMulFrom(_, _, _)
BigMulFrom(a, b, i) ==
    IF i > Len(b) THEN << >>
    ELSE BigAdd(IF b[i] = 0 THEN << >>
                ELSE ZeroLimbs(i - 1) \o BigMulSmall(a, b[i]),
                BigMulFrom(a, b, i + 1))

BigMul(a, b) == IF a = << >> \/ b = << >> THEN << >> ELSE BigMulFrom(a, b, 1)

\* a * 2^s
BigShl(a, s) ==
    IF a = << >> THEN a
    ELSE ZeroLimbs(s \div LimbBits) \o BigMulSmall(a, 2^(s % LimbBits))

\* floor(a / 2^s)
BigShr(a, s) ==
    LET k == s \div LimbBits
        r == s % LimbBits
    IN  IF k >= Len(a) THEN << >>
        ELSE BigNorm([i \in 1..(Len(a) - k) |->
                 (a[i + k] \div 2^r) + (Limb(a, i + k + 1) % 2^r) * 2^(LimbBits - r)])

RECURSIVE NatBitLen(_)
NatBitLen(n) == IF n = 0 THEN 0 ELSE 1 + NatBitLen(n \div 2)

BigBitLen(a) ==
    IF a = << >> THEN 0 ELSE LimbBits * (Len(a) - 1) + NatBitLen(a[Len(a)])

\* bit i of a, bit 0 the lowest
BigBit(a, i) == (Limb(a, i \div LimbBits + 1) \div 2^(i % LimbBits)) % 2

\* a mod 2^s = 0
BigLowZero(a, s) ==
    /\ \A i \in 1..(s \div LimbBits) : Limb(a, i) = 0
    /\ Limb(a, s \div LimbBits + 1) % 2^(s % LimbBits) = 0

BigIsOdd(a) == a # << >> /\ a[1] % 2 = 1

----------------------------------------------------------------------------
(* Python float: IEEE-754 binary64.  A float is [s, m, e] with value       *)
(* (-1)^s * m * 2^e, where m = 0 (and e = 0) or 2^52 <= m < 2^53.  The     *)
(* inputs of the model keep every figure far inside the normal range, so   *)
(* infinities, NaN and subnormal numbers do not arise.                     *)

Precision == 53

FZero(s) == [s |-> s, m |-> << >>, e |-> 0]

IsZero(x) == x.m = << >>

\* The float nearest to (-1)^s * (n + f) * 2^e, ties to even, where n > 0
\* and 0 < f < 1 if sticky, f = 0 otherwise.
RoundPack(s, n, e, sticky) ==
    LET len == BigBitLen(n)
    IN  IF len <= Precision
        THEN [s |-> s, m |-> BigShl(n, Precision - len), e |-> e - (Precision - len)]
        ELSE LET d     == len - Precision
                 q     == BigShr(n, d)
                 guard == BigBit(n, d - 1) = 1
                 rest  == sticky \/ ~BigLowZero(n, d - 1)
                 up    == guard /\ (rest \/ BigIsOdd(q))
                 q1    == IF up THEN BigAdd(q, <<1>>) ELSE q
             IN  IF BigBitLen(q1) > Precision
                 THEN [s |-> s, m |-> BigShr(q1, 1), e |-> e + d + 1]
                 ELSE [s |-> s, m |-> q1, e |-> e + d]

\* float(n) for a Python int n
FromInt(n) ==
    IF n = 0 THEN FZero(0)
    ELSE IF n < 0 THEN RoundPack(1, BigFromNat(-n), 0, FALSE)
    ELSE RoundPack(0, BigFromNat(n), 0, FALSE)

\* x * y
FMul(x, y) ==
    LET s == (x.s + y.s) % 2
    IN  IF IsZero(x) \/ IsZero(y) THEN FZero(s)
        ELSE RoundPack(s, BigMul(x.m, y.m), x.e + y.e, FALSE)

QuotientBits == Precision + 3

\* Long division of significands, r < 2d: the bits of r / d, highest first,
\* until the quotient q has QuotientBits significant bits; k counts the bits
\* produced, the first of which has weight 2^0.
RECURSIVE DivBits(_, _, _, _)
DivBits(r, d, q, k) ==
    IF BigBitLen(q) >= QuotientBits THEN [q |-> q, k |-> k, exact |-> r = << >>]
    ELSE IF BigCmp(r, d) >= 0
         THEN DivBits(BigShl(BigSub(r, d), 1), d, BigAdd(BigShl(q, 1), <<1>>), k + 1)
         ELSE DivBits(BigShl(r, 1), d, BigShl(q, 1), k + 1)

\* x / y, for y # 0
FDiv(x, y) ==
    LET s == (x.s + y.s) % 2
    IN  IF IsZero(x) THEN FZero(s)
        ELSE LET r == DivBits(x.m, y.m, << >>, 0)
             IN  RoundPack(s, r.q, x.e - y.e - (r.k - 1), ~r.exact)

\* x == y
FEq(x, y) == (IsZero(x) /\ IsZero(y)) \/ x = y

\* -1, 0, 1 as |x| < |y|, |x| = |y|, |x| > |y|
MagCmp(x, y) ==
    IF IsZero(x) THEN (IF IsZero(y) THEN 0 ELSE -1)
    ELSE IF IsZero(y) THEN 1
    ELSE IF x.e < y.e THEN -1
    ELSE IF x.e > y.e THEN 1
    ELSE BigCmp(x.m, y.m)

\* x < y
FLess(x, y) ==
    IF IsZero(x) /\ IsZero(y) THEN FALSE
    ELSE IF x.s = 1 /\ (y.s = 0 \/ IsZero(y)) THEN ~IsZero(x) \/ ~IsZero(y)
    ELSE IF x.s = 0 /\ y.s = 1 THEN FALSE
    ELSE IF x.s = 0 THEN MagCmp(x, y) < 0
    ELSE MagCmp(x, y) > 0

\* int(x): truncation toward zero
FTrunc(x) ==
    IF IsZero(x) THEN 0
    ELSE LET mag == IF x.e >= 0 THEN BigToNat(BigShl(x.m, x.e))
                    ELSE BigToNat(BigShr(x.m, -x.e))
         IN  IF x.s = 1 THEN -mag ELSE mag

----------------------------------------------------------------------------
(* The values the three sidebar widgets can hold.  A typed amount with two *)
(* decimals is the float nearest to it; the day count is a Python int.     *)

MaxDays == 15

\* the float of the decimal literal num/den
Literal(num, den) == FDiv(FromInt(num), FromInt(den))

FromCents(c) == Literal(c, 100)

Zero == FZero(0)

CarCostAmounts == {0, 50000, 1000000, 2500000}

DailyRentalAmounts == {0, 4999, 5000, 10000}

\* widget values: number_input with min_value = 0.0, 0.0 and 0
CarCostValues == {FromCents(c) : c \in CarCostAmounts}
DailyRentalValues == {FromCents(c) : c \in DailyRentalAmounts}
MonthlyRentalsValues == 0..MaxDays

\* arguments of a direct call of calculate_roi, which checks no sign
CarCostArgs == CarCostValues \cup {FromCents(-1000000)}
DailyRentalArgs == DailyRentalValues \cup {FromCents(-5000)}
MonthlyRentalsArgs == (-1)..MaxDays

----------------------------------------------------------------------------
VARIABLES
    car_cost,         \* the three widget values (or call arguments)
    daily_rental,
    monthly_rentals,
    button,           \* st.sidebar.button(...) of the last run of the script
    result,           \* monthly_income, months_to_recoup, roi of the last run
    page,             \* what the last run rendered
    pinned            \* an earlier Calculate, noted down for comparison

vars == <<car_cost, daily_rental, monthly_rentals, button, result, page, pinned>>

----------------------------------------------------------------------------
(* calculate_roi                                                           *)

NoneResult == [kind |-> "None"]

ZeroDivisionError == [kind |-> "raise", exc |-> "ZeroDivisionError"]

Unbound == [kind |-> "unbound"]

\* calculate_roi with the quotient of line 33 upside down
calculate_roi_inverted(car_cost_, daily_rental_, monthly_rentals_) ==
    LET monthly_income == FMul(daily_rental_, FromInt(monthly_rentals_))
    IN  IF IsZero(monthly_income) THEN NoneResult
        ELSE IF IsZero(car_cost_) THEN ZeroDivisionError
        ELSE [kind             |-> "ok",
              monthly_income   |-> monthly_income,
              months_to_recoup |-> FDiv(monthly_income, car_cost_),
              roi |-> FMul(FDiv(monthly_income, car_cost_), FromInt(100))]

\* calculate_roi with roi left a fraction, not a percentage
calculate_roi_fraction(car_cost_, daily_rental_, monthly_rentals_) ==
    LET monthly_income == FMul(daily_rental_, FromInt(monthly_rentals_))
    IN  IF IsZero(monthly_income) THEN NoneResult
        ELSE IF IsZero(car_cost_) THEN ZeroDivisionError
        ELSE [kind             |-> "ok",
              monthly_income   |-> monthly_income,
              months_to_recoup |-> FDiv(car_cost_, monthly_income),
              roi              |-> FDiv(monthly_income, car_cost_)]

calculate_roi(car_cost_, daily_rental_, monthly_rentals_) ==
    LET monthly_income == FMul(daily_rental_, FromInt(monthly_rentals_))
    IN  IF IsZero(monthly_income) THEN NoneResult
        ELSE LET months_to_recoup == FDiv(car_cost_, monthly_income)
             IN  IF IsZero(car_cost_) THEN ZeroDivisionError
                 ELSE [kind             |-> "ok",
                       monthly_income   |-> monthly_income,
                       months_to_recoup |-> months_to_recoup,
                       roi |-> FMul(FDiv(monthly_income, car_cost_), FromInt(100))]

----------------------------------------------------------------------------
(* The projection series of the button handler                             *)

OnePointTwo == Literal(12, 10)

\* max_months without the 20% extension
MaxMonthsNoExtension(months_to_recoup) == FTrunc(months_to_recoup)

\* max_months = int(months_to_recoup * 1.2)
MaxMonths(months_to_recoup) == FTrunc(FMul(months_to_recoup, OnePointTwo))

\* months = np.arange(1, max_months + 1)
Months(max_months) == [k \in 1..max_months |-> k]

\* cumulative income counted from month 0
CumulativeIncomeFromZero(monthly_income, months) ==
    [k \in 1..Len(months) |-> FMul(monthly_income, FromInt(months[k] - 1))]

\* cumulative_income = monthly_income * months
CumulativeIncome(monthly_income, months) ==
    [k \in 1..Len(months) |-> FMul(monthly_income, FromInt(months[k]))]

----------------------------------------------------------------------------
(* The page a run of the script renders below the title: the error boxes,  *)
(* the result figures, the chart and the milestone table.                  *)

InvalidInputMessage == "Please enter valid positive values for all parameters."

ZeroIncomeMessage ==
    "Calculation error: Monthly income is zero. Please adjust your inputs."

EmptyPage == [errors |-> << >>, figures |-> << >>, chart |-> << >>, table |-> << >>]

ErrorPage(message) == [EmptyPage EXCEPT !.errors = <<message>>]

ResultsPage(car_cost_, r) ==
    LET months            == Months(MaxMonths(r.months_to_recoup))
        cumulative_income == CumulativeIncome(r.monthly_income, months)
    IN  [errors  |-> << >>,
         figures |-> <<r.monthly_income, r.months_to_recoup, r.roi>>,
         chart   |-> <<[x |-> months, y |-> cumulative_income, axhline |-> car_cost_]>>,
         table   |-> <<[Month |-> months, CumulativeIncome |-> cumulative_income]>>]

\* the guard without its test of car_cost
InputsPositiveButCost(car_cost_, daily_rental_, monthly_rentals_) ==
    /\ FLess(Zero, daily_rental_)
    /\ monthly_rentals_ > 0

\* the guard with daily_rental >= 0
InputsPositiveOrZeroRate(car_cost_, daily_rental_, monthly_rentals_) ==
    /\ FLess(Zero, car_cost_)
    /\ ~FLess(daily_rental_, Zero)
    /\ monthly_rentals_ > 0

\* the guard with monthly_rentals >= 0
InputsPositiveOrZeroDays(car_cost_, daily_rental_, monthly_rentals_) ==
    /\ FLess(Zero, car_cost_)
    /\ FLess(Zero, daily_rental_)
    /\ monthly_rentals_ >= 0

\* if car_cost > 0 and daily_rental > 0 and monthly_rentals > 0
InputsPositive(car_cost_, daily_rental_, monthly_rentals_) ==
    /\ FLess(Zero, car_cost_)
    /\ FLess(Zero, daily_rental_)
    /\ monthly_rentals_ > 0

\* the engine's return as the handler binds it: unbound if the guard fails
HandlerResult(car_cost_, daily_rental_, monthly_rentals_) ==
    IF InputsPositive(car_cost_, daily_rental_, monthly_rentals_)
    THEN calculate_roi(car_cost_, daily_rental_, monthly_rentals_)
    ELSE Unbound

\* a handler that keeps the error boxes of the run before
HandlerPageKeepingErrors(car_cost_, r) ==
    IF r.kind = "unbound" THEN [EmptyPage EXCEPT !.errors = page.errors \o <<InvalidInputMessage>>]
    ELSE IF r.kind = "raise" THEN ErrorPage(r.exc)
    ELSE IF r.kind = "ok" THEN ResultsPage(car_cost_, r)
    ELSE ErrorPage(ZeroIncomeMessage)

\* what the handler renders
HandlerPage(car_cost_, r) ==
    IF r.kind = "unbound" THEN ErrorPage(InvalidInputMessage)
    ELSE IF r.kind = "raise" THEN ErrorPage(r.exc)
    ELSE IF r.kind = "ok" THEN ResultsPage(car_cost_, r)
    ELSE ErrorPage(ZeroIncomeMessage)

----------------------------------------------------------------------------
\* A Streamlit session: the script has run once with the default widget values.
Init ==
    /\ car_cost = FromCents(2500000)
    /\ daily_rental = FromCents(5000)
    /\ monthly_rentals = 15
    /\ button = FALSE
    /\ result = Unbound
    /\ page = EmptyPage
    /\ pinned = << >>

\* Changing a widget reruns the script with the button not pressed.
Rerun ==
    /\ button' = FALSE
    /\ result' = Unbound
    /\ page' = EmptyPage

SetCarCost(v) ==
    /\ car_cost' = v
    /\ UNCHANGED <<daily_rental, monthly_rentals>>
    /\ Rerun

SetDailyRental(v) ==
    /\ daily_rental' = v
    /\ UNCHANGED <<car_cost, monthly_rentals>>
    /\ Rerun

SetMonthlyRentals(v) ==
    /\ monthly_rentals' = v
    /\ UNCHANGED <<car_cost, daily_rental>>
    /\ Rerun

\* Pressing "Calculate ROI" reruns the script with the button pressed.
Calculate ==
    /\ button' = TRUE
    /\ result' = HandlerResult(car_cost, daily_rental, monthly_rentals)
    /\ page' = HandlerPage(car_cost, result')
    /\ UNCHANGED <<car_cost, daily_rental, monthly_rentals>>

Next ==
    \/ \E v \in CarCostValues : SetCarCost(v) /\ UNCHANGED pinned
    \/ \E v \in DailyRentalValues : SetDailyRental(v) /\ UNCHANGED pinned
    \/ \E v \in MonthlyRentalsValues : SetMonthlyRentals(v) /\ UNCHANGED pinned
    \/ Calculate /\ UNCHANGED pinned

Spec == Init /\ [][Next]_vars

----------------------------------------------------------------------------
(* calculate_roi called directly, on arguments of any sign                 *)

EngineInit ==
    /\ car_cost \in CarCostArgs
    /\ daily_rental \in DailyRentalArgs
    /\ monthly_rentals \in MonthlyRentalsArgs
    /\ button = FALSE
    /\ result = Unbound
    /\ page = EmptyPage
    /\ pinned = << >>

Call ==
    /\ result = Unbound
    /\ result' = calculate_roi(car_cost, daily_rental, monthly_rentals)
    /\ UNCHANGED <<car_cost, daily_rental, monthly_rentals, button, page, pinned>>

EngineNext == Call

EngineSpec == EngineInit /\ [][EngineNext]_vars

----------------------------------------------------------------------------
(* A session in which one Calculate is noted down, to be compared with the *)
(* later ones on the same inputs; edited tells that a widget has been      *)
(* changed since.                                                          *)

PairDays == {0, MaxDays - 1, MaxDays}

Pin ==
    /\ button
    /\ pinned = << >>
    /\ pinned' = <<[car_cost |-> car_cost, daily_rental |-> daily_rental,
                    monthly_rentals |-> monthly_rentals,
                    result |-> result, page |-> page, edited |-> FALSE]>>
    /\ UNCHANGED <<car_cost, daily_rental, monthly_rentals, button, result, page>>

NoteEdit ==
    pinned' = IF pinned = << >> THEN pinned
              ELSE <<[pinned[1] EXCEPT !.edited = TRUE]>>

PairNext ==
    \/ \E v \in CarCostValues : SetCarCost(v) /\ NoteEdit
    \/ \E v \in DailyRentalValues : SetDailyRental(v) /\ NoteEdit
    \/ \E v \in PairDays : SetMonthlyRentals(v) /\ NoteEdit
    \/ Calculate /\ UNCHANGED pinned
    \/ Pin

PairSpec == Init /\ [][PairNext]_vars

----------------------------------------------------------------------------
(* Exact arithmetic on magnitudes m * 2^e, to compare what the engine      *)
(* returns with the real numbers the properties speak of.                  *)

Min2(x, y) == IF x <= y THEN x ELSE y

Dy(x) == [m |-> x.m, e |-> x.e]

DyMul(a, b) == [m |-> BigMul(a.m, b.m), e |-> a.e + b.e]

DyScaled(a, e0) == BigShl(a.m, a.e - e0)

\* -1, 0, 1 as a < b, a = b, a > b
DyCmp(a, b) ==
    LET e0 == Min2(a.e, b.e)
    IN  BigCmp(DyScaled(a, e0), DyScaled(b, e0))

\* |a - b|
DyDist(a, b) ==
    LET e0 == Min2(a.e, b.e)
        x  == DyScaled(a, e0)
        y  == DyScaled(b, e0)
    IN  [m |-> IF BigCmp(x, y) >= 0 THEN BigSub(x, y) ELSE BigSub(y, x), e |-> e0]

\* |a - b| <= b * 2^(-bits)
DyWithin(a, b, bits) ==
    LET d == DyDist(a, b)
    IN  DyCmp([m |-> d.m, e |-> d.e + bits], b) <= 0

Called == result.kind # "unbound"

ArgsPositive ==
    FLess(Zero, car_cost) /\ FLess(Zero, daily_rental) /\ monthly_rentals > 0

----------------------------------------------------------------------------
(* C1: for every triple of arguments, zero and negative ones included,     *)
(* calculate_roi returns a defined result or (None, None, None), returns   *)
(* the latter exactly when daily rate times rental days is zero, and never *)
(* raises an exception.                                                    *)
C1_EngineNeverRaises ==
    Called =>
        /\ result.kind \in {"ok", "None"}
        /\ result.kind = "None" <=> (IsZero(daily_rental) \/ monthly_rentals = 0)

----------------------------------------------------------------------------
(* C2 as stated: for positive arguments monthly_income is daily rate times *)
(* rental days, and months_to_recoup times monthly_income equals the car   *)
(* cost - read as a float product or as a product of real numbers.         *)
C2_RecoupProductEqualsCost ==
    (Called /\ ArgsPositive) =>
        /\ result.kind = "ok"
        /\ FEq(result.monthly_income, FMul(daily_rental, FromInt(monthly_rentals)))
        /\ \/ FEq(FMul(result.months_to_recoup, result.monthly_income), car_cost)
           \/ DyCmp(DyMul(Dy(result.months_to_recoup), Dy(result.monthly_income)),
                    Dy(car_cost)) = 0

(* C2 amended: for positive arguments monthly_income is daily rate times   *)
(* rental days rounded to binary64 (within 2^-53 of the real product,      *)
(* relatively), and months_to_recoup times monthly_income, as real         *)
(* numbers, is within car cost * 2^-53 of the car cost.                    *)
C2_RecoupProductWithinRounding ==
    (Called /\ ArgsPositive) =>
        /\ result.kind = "ok"
        /\ DyWithin(Dy(result.monthly_income),
                    DyMul(Dy(daily_rental), Dy(FromInt(monthly_rentals))), Precision)
        /\ DyWithin(DyMul(Dy(result.months_to_recoup), Dy(result.monthly_income)),
                    Dy(car_cost), Precision)

\* a call on positive arguments where both the income and the quotient are rounded
C2_Witness ==
    /\ Called /\ ArgsPositive /\ result.kind = "ok"
    /\ DyCmp(Dy(result.monthly_income),
             DyMul(Dy(daily_rental), Dy(FromInt(monthly_rentals)))) # 0
    /\ DyCmp(DyMul(Dy(result.months_to_recoup), Dy(result.monthly_income)),
             Dy(car_cost)) # 0

----------------------------------------------------------------------------
RoiSign == result.roi.s = (result.monthly_income.s + car_cost.s) % 2

Hundred == FromInt(100)

(* C7 as stated: for every defined result roi equals 100 * monthly_income  *)
(* / car_cost - evaluated in floats or as real numbers - and roi > 0       *)
(* whenever monthly_income > 0 and car_cost > 0.                           *)
C7_RoiEqualsFormula ==
    result.kind = "ok" =>
        /\ \/ FEq(result.roi, FDiv(FMul(Hundred, result.monthly_income), car_cost))
           \/ /\ RoiSign
              /\ DyCmp(DyMul(Dy(result.roi), Dy(car_cost)),
                       DyMul(Dy(Hundred), Dy(result.monthly_income))) = 0
        /\ (FLess(Zero, result.monthly_income) /\ FLess(Zero, car_cost))
               => FLess(Zero, result.roi)

(* C7 amended: for every defined result roi has the sign of monthly_income *)
(* / car_cost and is within a relative error of 2^-51 of the real number   *)
(* 100 * monthly_income / car_cost (the quotient and the product are each  *)
(* rounded to binary64), and roi > 0 whenever monthly_income > 0 and       *)
(* car_cost > 0.                                                           *)
C7_RoiWithinRounding ==
    result.kind = "ok" =>
        /\ RoiSign
        /\ DyWithin(DyMul(Dy(result.roi), Dy(car_cost)),
                    DyMul(Dy(Hundred), Dy(result.monthly_income)), Precision - 2)
        /\ (FLess(Zero, result.monthly_income) /\ FLess(Zero, car_cost))
               => FLess(Zero, result.roi)

\* a defined result on positive arguments whose roi is not the real quotient
C7_Witness ==
    /\ result.kind = "ok" /\ ArgsPositive
    /\ FLess(Zero, result.roi)
    /\ DyCmp(DyMul(Dy(result.roi), Dy(car_cost)),
             DyMul(Dy(Hundred), Dy(result.monthly_income))) # 0

----------------------------------------------------------------------------
(* C3: for a defined result with monthly_income > 0 and months_to_recoup   *)
(* >= 0 the series charted and tabulated is exactly the points             *)
(* (k, monthly_income * k) for k = 1 .. int(months_to_recoup * 1.2), the   *)
(* products being float products: that many points (none when the bound is *)
(* below 1), months 1, 2, ... without duplicates, months and cumulative    *)
(* income strictly increasing.                                             *)
C3_SeriesIsMonthlyMultiples ==
    (button /\ result.kind = "ok" /\ FLess(Zero, result.monthly_income)
            /\ ~FLess(result.months_to_recoup, Zero)) =>
        /\ page.table # << >>
        /\ page.chart # << >>
        /\ LET t == page.table[1]
               n == FTrunc(FMul(result.months_to_recoup, OnePointTwo))
           IN  /\ Len(t.Month) = Max2(n, 0)
               /\ Len(t.CumulativeIncome) = Len(t.Month)
               /\ \A k \in 1..Len(t.Month) :
                      /\ t.Month[k] = k
                      /\ FEq(t.CumulativeIncome[k],
                             FMul(result.monthly_income, FromInt(k)))
               /\ \A k \in 1..(Len(t.Month) - 1) :
                      /\ t.Month[k] < t.Month[k + 1]
                      /\ FLess(t.CumulativeIncome[k], t.CumulativeIncome[k + 1])
               /\ \A j, k \in 1..Len(t.Month) : t.Month[j] = t.Month[k] => j = k
               /\ page.chart[1].x = t.Month
               /\ page.chart[1].y = t.CumulativeIncome

\* a rendered series of several points
C3_Witness ==
    /\ button /\ result.kind = "ok"
    /\ page.table # << >>
    /\ Len(page.table[1].Month) >= 2

\* a rendered series of no point
C3_WitnessEmpty ==
    /\ button /\ result.kind = "ok"
    /\ page.table # << >>
    /\ page.table[1].Month = << >>

----------------------------------------------------------------------------
ScenarioA ==
    /\ car_cost = FromInt(25000)
    /\ daily_rental = FromInt(50)
    /\ monthly_rentals = 15

(* C4 as stated: for car cost 25000, daily rate 50 and 15 rental days the  *)
(* engine yields monthly_income = 750 and roi = 3, and the series has      *)
(* exactly 39 points, months 1 through 39.                                 *)
C4_ScenarioAHas39Points ==
    (button /\ ScenarioA) =>
        /\ result.kind = "ok"
        /\ FEq(result.monthly_income, FromInt(750))
        /\ FEq(result.roi, FromInt(3))
        /\ page.table # << >>
        /\ page.table[1].Month = [k \in 1..39 |-> k]

(* C4 amended: for the same inputs the engine yields monthly_income = 750  *)
(* and roi = 3, and the series has exactly 40 points, months 1 through 40  *)
(* (months_to_recoup is the float 33.333333333333336, and its float        *)
(* product with 1.2 is 40.0).                                              *)
C4_ScenarioAHas40Points ==
    (button /\ ScenarioA) =>
        /\ result.kind = "ok"
        /\ FEq(result.monthly_income, FromInt(750))
        /\ FEq(result.roi, FromInt(3))
        /\ page.table # << >>
        /\ page.table[1].Month = [k \in 1..40 |-> k]
        /\ Len(page.table[1].CumulativeIncome) = 40

C4_Witness == button /\ ScenarioA /\ page.table # << >> /\ page.errors = << >>

----------------------------------------------------------------------------
SomeInputNotPositive ==
    \/ ~FLess(Zero, car_cost)
    \/ ~FLess(Zero, daily_rental)
    \/ monthly_rentals <= 0

(* C5: on a Calculate with an input that is not strictly positive the      *)
(* shell does not call calculate_roi, and all it renders is one error      *)
(* message: no figures, no chart, no table.                                *)
C5_InvalidInputOnlyOneError ==
    (button /\ SomeInputNotPositive) =>
        /\ result = Unbound
        /\ Len(page.errors) = 1
        /\ page.figures = << >>
        /\ page.chart = << >>
        /\ page.table = << >>

C5_Witness ==
    button /\ IsZero(car_cost) /\ ~IsZero(daily_rental) /\ monthly_rentals > 0

----------------------------------------------------------------------------
ZeroIncomeInputs == IsZero(daily_rental) \/ monthly_rentals = 0

(* C6 as stated: on a Calculate with daily rate 0 or rental days 0 the     *)
(* page shows the message that monthly income is zero, and no chart and no *)
(* table.                                                                  *)
C6_ZeroRateShowsZeroIncomeMessage ==
    (button /\ ZeroIncomeInputs) =>
        /\ page.errors = <<ZeroIncomeMessage>>
        /\ page.chart = << >>
        /\ page.table = << >>

(* C6 amended: on a Calculate with daily rate 0 or rental days 0 the guard *)
(* fails: the engine is not called and the page shows the prompt for       *)
(* positive values, not the monthly-income-is-zero message, and no chart   *)
(* and no table; calculate_roi itself returns (None, None, None) on these  *)
(* inputs.                                                                 *)
C6_ZeroRateShowsInvalidInputPrompt ==
    (button /\ ZeroIncomeInputs) =>
        /\ page.errors = <<InvalidInputMessage>>
        /\ InvalidInputMessage # ZeroIncomeMessage
        /\ result = Unbound
        /\ page.chart = << >>
        /\ page.table = << >>
        /\ calculate_roi(car_cost, daily_rental, monthly_rentals) = NoneResult

C6_Witness ==
    button /\ IsZero(daily_rental) /\ ~IsZero(car_cost) /\ monthly_rentals > 0

----------------------------------------------------------------------------
(* C9: for a defined result on strictly positive inputs the timeline       *)
(* extends beyond the recoupment time: max_months >= months_to_recoup, the *)
(* series is not empty and its last cumulative income is at least the car  *)
(* cost.                                                                   *)
C9_TimelineReachesCarCost ==
    (button /\ ArgsPositive /\ result.kind = "ok") =>
        /\ page.table # << >>
        /\ LET t == page.table[1]
               n == Len(t.Month)
           IN  /\ n >= 1
               /\ ~FLess(FromInt(n), result.months_to_recoup)
               /\ ~FLess(t.CumulativeIncome[n], car_cost)

----------------------------------------------------------------------------
(* C10: the monthly-income-is-zero message is never shown: when the guard  *)
(* passes calculate_roi returns a defined result with monthly_income > 0,  *)
(* so a Calculate ends in the full results or in the prompt for positive   *)
(* values.                                                                 *)
C10_ZeroIncomeMessageUnreachable ==
    /\ ZeroIncomeMessage \notin {page.errors[i] : i \in 1..Len(page.errors)}
    /\ button =>
          \/ /\ SomeInputNotPositive
             /\ page.errors = <<InvalidInputMessage>>
          \/ /\ ArgsPositive
             /\ result.kind = "ok"
             /\ FLess(Zero, result.monthly_income)
             /\ page.errors = << >>
             /\ Len(page.figures) = 3
             /\ Len(page.chart) = 1
             /\ Len(page.table) = 1

C10_Witness == button /\ ArgsPositive /\ Len(page.figures) = 3

----------------------------------------------------------------------------
SameInputsAsPinned ==
    /\ pinned # << >>
    /\ pinned[1].car_cost = car_cost
    /\ pinned[1].daily_rental = daily_rental
    /\ pinned[1].monthly_rentals = monthly_rentals

====
